---- MODULE Spec2Model ----
(***************************************************************************)
(* Session lifecycle and tool-dispatch controller of ChatKitPanel          *)
(* (src/components/ChatKitPanel.tsx, the variant with autoStartText,       *)
(* lines 358-748).                                                         *)
(*                                                                         *)
(* React state (useState) and refs (useRef) are the variables; every       *)
(* callback handed to the widget, every effect and every continuation of   *)
(* an await is one action.  JavaScript values are modelled as tagged       *)
(* records so that typeof, truthiness and strict equality behave as in     *)
(* the source.                                                             *)
(***************************************************************************)
EXTENDS Integers, Sequences, FiniteSets, TLC

\* ------------------------------------------------------------------------
\* Bounds of the model
\* ------------------------------------------------------------------------
MaxGeneration == 2
MaxInFlight == 1
MaxPendingSends == 1
MaxSendsPerGeneration == 2

\* ------------------------------------------------------------------------
\* JavaScript values
\* ------------------------------------------------------------------------
JsUndefined == [t |-> "undefined", s |-> "", n |-> 0]
JsNull == [t |-> "null", s |-> "", n |-> 0]
JsStr(x) == [t |-> "string", s |-> x, n |-> 0]
JsNum(k) == [t |-> "number", s |-> "", n |-> k]

\* Boolean(v) / !v
Truthy(v) ==
  CASE v.t = "string" -> v.s # ""
    [] v.t = "number" -> v.n # 0
    [] v.t = "object" -> TRUE
    [] OTHER -> FALSE

\* typeof v (typeof null is "object")
TypeOf(v) == IF v.t = "null" THEN "object" ELSE v.t

\* String(v) for the primitives that occur
ToJsString(v) ==
  CASE v.t = "string" -> v.s
    [] v.t = "number" -> IF v.n = 0 THEN "0" ELSE "1"
    [] v.t = "null" -> "null"
    [] v.t = "undefined" -> "undefined"
    [] OTHER -> "[object Object]"

\* v ?? d
Coalesce(v, d) == IF v.t \in {"undefined", "null"} THEN d ELSE v

\* An object read out of JSON that may carry a "message" key; every other
\* value has no such key.
WithMessage(v, m) == [t |-> v.t, s |-> v.s, n |-> v.n, message |-> m]
JsErrorObject(m) == [t |-> "object", s |-> "", n |-> 0, message |-> m]

\* An object that may carry an "error" key.
WithError(v, e) == [t |-> v.t, s |-> v.s, n |-> v.n, error |-> e]
JsDetailsObject(e) == [t |-> "object", s |-> "", n |-> 0, error |-> e]

\* CreateSessionResponse: the parsed body.  JSON.parse may also yield null
\* or a primitive, which has none of the keys.
JsPayload(v, cs, e, d, m) ==
  [t |-> v.t, s |-> v.s, n |-> v.n,
   client_secret |-> cs, error |-> e, details |-> d, message |-> m]
NoError == WithMessage(JsUndefined, JsUndefined)
NoDetails == WithError(JsUndefined, NoError)
JsObject == [t |-> "object", s |-> "", n |-> 0]
PayloadObject(cs, e, d, m) == JsPayload(JsObject, cs, e, d, m)
PayloadPrimitive(v) == JsPayload(v, JsUndefined, NoError, NoDetails, JsUndefined)
EmptyPayload == PayloadObject(JsUndefined, NoError, NoDetails, JsUndefined)

\* ------------------------------------------------------------------------
\* extractErrorDetail and its type guards
\* ------------------------------------------------------------------------
isErrorLikeWithMessage(value) ==
  /\ TypeOf(value) = "object"
  /\ value.t # "null"
  /\ value.message.t # "undefined"
  /\ TypeOf(value.message) = "string"

isErrorDetailsWithError(value) ==
  /\ TypeOf(value) = "object"
  /\ value.t # "null"
  /\ value.error.t # "undefined"

extractErrorDetail_DetailsFirst(payload, fallback) ==
  IF ~Truthy(payload) THEN fallback
  ELSE IF TypeOf(payload.details) = "string" THEN payload.details.s
  ELSE IF TypeOf(payload.error) = "string" THEN payload.error.s
  ELSE IF isErrorLikeWithMessage(payload.error) THEN payload.error.message.s
  ELSE IF isErrorDetailsWithError(payload.details)
          /\ TypeOf(payload.details.error) = "string"
       THEN payload.details.error.s
  ELSE IF isErrorDetailsWithError(payload.details)
          /\ isErrorLikeWithMessage(payload.details.error)
       THEN payload.details.error.message.s
  ELSE IF TypeOf(payload.message) = "string" THEN payload.message.s
  ELSE fallback

extractErrorDetail(payload, fallback) ==
  IF ~Truthy(payload) THEN fallback
  ELSE IF TypeOf(payload.error) = "string" THEN payload.error.s
  ELSE IF isErrorLikeWithMessage(payload.error) THEN payload.error.message.s
  ELSE IF TypeOf(payload.details) = "string" THEN payload.details.s
  ELSE IF isErrorDetailsWithError(payload.details)
          /\ TypeOf(payload.details.error) = "string"
       THEN payload.details.error.s
  ELSE IF isErrorDetailsWithError(payload.details)
          /\ isErrorLikeWithMessage(payload.details.error)
       THEN payload.details.error.message.s
  ELSE IF TypeOf(payload.message) = "string" THEN payload.message.s
  ELSE fallback

\* ------------------------------------------------------------------------
\* Configuration and messages
\* ------------------------------------------------------------------------
PlaceholderPrefix == <<"w", "f", "_", "r", "e", "p", "l", "a", "c", "e">>

startsWith(str, prefix) ==
  /\ Len(str) >= Len(prefix)
  /\ SubSeq(str, 1, Len(prefix)) = prefix

isWorkflowConfigured_EmptyOnly(workflow) == Len(workflow) > 0

isWorkflowConfigured(workflow) ==
  Len(workflow) > 0 /\ ~startsWith(workflow, PlaceholderPrefix)

ConfigurationDetail == "Set NEXT_PUBLIC_CHATKIT_WORKFLOW_ID in your .env.local file."
MissingSecretDetail == "Missing client secret in response"
GenericDetail == "Unable to start ChatKit session."
AutoStartFailureMessage ==
  "Connected, but failed to send the initial message. You can type manually."
\* message of the TypeError raised by reading a property of null
NullReadMessage == "Cannot read properties of null (reading 'client_secret')"

createInitialErrors == JsNull

\* ------------------------------------------------------------------------
\* Tool dispatcher helpers
\* ------------------------------------------------------------------------
isColorScheme_AnyString(requested) == requested.t = "string"

\* requested === "light" || requested === "dark"
isColorScheme(requested) ==
  requested = JsStr("light") \/ requested = JsStr("dark")

\* String(invocation.params.fact_id), without the ?? ""
factIdOf_NoCoalesce(params) == ToJsString(params.fact_id)

\* String(invocation.params.fact_id ?? "")
factIdOf(params) == ToJsString(Coalesce(params.fact_id, JsStr("")))

shouldSkipFact_NoDedup(id, processed) == id = ""

\* !id || processedFacts.current.has(id)
shouldSkipFact(id, processed) == id = "" \/ id \in processed

isSpace(c) == c \in {" ", "\t", "\n"}

RECURSIVE collapseWhitespace(_)
\* text.replace(/\s+/g, " ")
collapseWhitespace(text) ==
  IF text = <<>> THEN <<>>
  ELSE IF isSpace(Head(text))
       THEN IF Len(text) > 1 /\ isSpace(text[2])
            THEN collapseWhitespace(Tail(text))
            ELSE <<" ">> \o collapseWhitespace(Tail(text))
       ELSE <<Head(text)>> \o collapseWhitespace(Tail(text))

RECURSIVE trimStart(_)
trimStart(text) ==
  IF text # <<>> /\ isSpace(Head(text)) THEN trimStart(Tail(text)) ELSE text

RECURSIVE trimEnd(_)
trimEnd(text) ==
  IF text # <<>> /\ isSpace(text[Len(text)])
  THEN trimEnd(SubSeq(text, 1, Len(text) - 1))
  ELSE text

\* text.replace(/\s+/g, " ").trim()
normalizeFactText(text) == trimEnd(trimStart(collapseWhitespace(text)))

\* ------------------------------------------------------------------------
\* Negotiation: what the backend call can produce and what the body of the
\* try block makes of it
\* ------------------------------------------------------------------------
\* raw is "" (empty), text that JSON.parse rejects, or JSON text
ResponseBody(raw, json) == [raw |-> raw, json |-> json]
HttpResponse(ok, statusText, body) ==
  [kind |-> "response", ok |-> ok, statusText |-> statusText, body |-> body,
   isError |-> TRUE, message |-> ""]
\* fetch() or response.text() rejects
Rejection(isError, message) ==
  [kind |-> "rejection", ok |-> FALSE, statusText |-> "",
   body |-> ResponseBody("empty", EmptyPayload),
   isError |-> isError, message |-> message]

\* let data = {}; if (raw) { try { data = JSON.parse(raw) } catch {} }
parseBody(body) == IF body.raw = "json" THEN body.json ELSE EmptyPayload

Threw(isError, message) ==
  [threw |-> TRUE, isError |-> isError, message |-> message,
   clientSecret |-> JsUndefined]
Returned(secret) ==
  [threw |-> FALSE, isError |-> FALSE, message |-> "", clientSecret |-> secret]

\* data.client_secret: reading a property of null raises a TypeError
readClientSecret(data) ==
  IF data.t = "null" THEN Threw(TRUE, NullReadMessage)
  ELSE Returned(data.client_secret)

\* lines 473-532: the value returned or the exception raised inside try
tryBlock(outcome) ==
  IF outcome.kind = "rejection" THEN Threw(outcome.isError, outcome.message)
  ELSE LET data == parseBody(outcome.body) IN
       IF ~outcome.ok
       THEN Threw(TRUE, extractErrorDetail(data, outcome.statusText))
       ELSE LET read == readClientSecret(data) IN
            IF read.threw THEN read
            ELSE IF ~Truthy(read.clientSecret)
                 THEN Threw(TRUE, MissingSecretDetail)
                 ELSE Returned(read.clientSecret)

\* lines 535-538: error instanceof Error ? error.message : "Unable to ..."
catchDetail(thrown) == IF thrown.isError THEN thrown.message ELSE GenericDetail

\* line 652: hasError
hasErrorOf(message) == Truthy(message)

\* ------------------------------------------------------------------------
\* Inputs the environment can supply
\* ------------------------------------------------------------------------
WorkflowIds ==
  { <<>>,
    PlaceholderPrefix,
    PlaceholderPrefix \o <<"_", "m", "e">>,
    <<"w", "f", "_", "1">>,
    <<"x">> \o PlaceholderPrefix }

AutoStartTexts == {JsUndefined, JsStr("Start")}

CurrentSecrets == {JsNull, JsStr(""), JsStr("cs_old")}

FactIds == {"f1", "f2"}
FactIdParams == {JsUndefined, JsNull, JsStr("")} \cup {JsStr(f) : f \in FactIds}
FactText(text) == [present |-> TRUE, text |-> text]
NoFactText == [present |-> FALSE, text |-> <<>>]
ThemeParams ==
  {JsUndefined, JsNull, JsNum(1), JsStr(""), JsStr("Light"), JsStr("blue"),
   JsStr("light"), JsStr("dark")}

Invocation(name, theme, factId, factText) ==
  [name |-> name, theme |-> theme, fact_id |-> factId, fact_text |-> factText]
Invocations ==
  {Invocation("switch_theme", th, JsUndefined, NoFactText) : th \in ThemeParams}
  \cup {Invocation("record_fact", JsUndefined, f, NoFactText) : f \in FactIdParams}
  \cup {Invocation("record_fact", JsUndefined, JsStr("f1"),
                   FactText(<<" ", "a", "\t", " ", "b", "\n">>))}
  \cup {Invocation("open_window", JsUndefined, JsStr("f1"), NoFactText)}

JsonBody(p) == ResponseBody("json", p)
ErrorBody(e) == JsonBody(PayloadObject(JsUndefined, e, NoDetails, JsUndefined))
Outcomes ==
  { HttpResponse(TRUE, "OK", JsonBody(PayloadObject(JsStr("cs_new"), NoError, NoDetails, JsUndefined))),
    HttpResponse(TRUE, "OK", JsonBody(EmptyPayload)),
    HttpResponse(TRUE, "OK", ResponseBody("empty", EmptyPayload)),
    HttpResponse(TRUE, "OK", ResponseBody("invalid", EmptyPayload)),
    HttpResponse(TRUE, "OK", JsonBody(PayloadObject(JsStr(""), NoError, NoDetails, JsUndefined))),
    HttpResponse(TRUE, "OK", JsonBody(PayloadPrimitive(JsNull))),
    HttpResponse(FALSE, "Internal Server Error", ErrorBody(WithMessage(JsStr("rate_limited"), JsUndefined))),
    HttpResponse(FALSE, "Internal Server Error", ErrorBody(WithMessage(JsStr(""), JsUndefined))),
    HttpResponse(FALSE, "Bad Gateway", ResponseBody("invalid", EmptyPayload)),
    HttpResponse(FALSE, "", ResponseBody("empty", EmptyPayload)),
    HttpResponse(FALSE, "Internal Server Error",
      JsonBody(PayloadObject(JsUndefined, NoError,
                             JsDetailsObject(JsErrorObject(JsStr("X"))), JsStr("M")))),
    HttpResponse(FALSE, "Internal Server Error", JsonBody(PayloadPrimitive(JsNull))),
    Rejection(TRUE, "Failed to fetch"),
    Rejection(FALSE, "") }

\* ------------------------------------------------------------------------
\* State
\* ------------------------------------------------------------------------
VARIABLES
  WORKFLOW_ID,            \* configuration constant of @/lib/config
  autoStartText,          \* prop
  processedFacts,         \* useRef<Set<string>>
  errors,                 \* useState<ErrorState>: the message, string | null
  isInitializingSession,  \* useState(true)
  widgetInstanceKey,      \* useState(0): the generation
  isMountedRef,           \* useRef(true)
  hasAutoStartedRef,      \* useRef(false)
  pendingNegotiations,    \* getClientSecret calls suspended in fetch, by !currentSecret
  pendingSends,           \* auto-start sends suspended in sendUserMessage
  pendingHandlers,        \* fact ids with an onWidgetAction promise not yet settled
  handlerCalls,           \* onWidgetAction calls per fact id since the last clearing event
  clearedByThreadChange,  \* fact ids whose processed mark a thread change removed
  autoStartSends,         \* auto-start sends begun in the current generation
  last,                   \* the last event handled and what it returned
  exPayload, exFallback, exDetail  \* extractErrorDetail applied on its own

vars ==
  <<WORKFLOW_ID, autoStartText, processedFacts, errors, isInitializingSession,
    widgetInstanceKey, isMountedRef, hasAutoStartedRef,
    pendingNegotiations, pendingSends, pendingHandlers, handlerCalls,
    clearedByThreadChange, autoStartSends, last, exPayload, exFallback, exDetail>>

configVars == <<WORKFLOW_ID, autoStartText>>
extractVars == <<exPayload, exFallback, exDetail>>
factVars == <<processedFacts, pendingHandlers, handlerCalls, clearedByThreadChange>>
autoVars == <<hasAutoStartedRef, pendingSends, autoStartSends>>

NoInvocation == Invocation("", JsUndefined, JsUndefined, NoFactText)
NoOutcome == Rejection(FALSE, "")
NoEvent ==
  [kind |-> "none",                \* "none" also after an event that returns nothing
   invocation |-> NoInvocation,   \* tool: what was invoked
   success |-> FALSE,             \* tool: the result returned
   themeRequested |-> JsUndefined,\* tool: argument of onThemeRequest, if called
   handlerCalled |-> FALSE,       \* tool: onWidgetAction was called
   factId |-> "",                 \* tool: factId handed to onWidgetAction
   factText |-> <<>>,             \* tool: factText handed to onWidgetAction
   alreadyProcessed |-> FALSE,    \* tool: the id was in processedFacts on entry
   currentSecret |-> JsNull,      \* negotiation: the argument
   outcome |-> NoOutcome,         \* negotiation: what the backend call produced
   fetchIssued |-> FALSE,         \* negotiation: fetch was called
   threw |-> FALSE,               \* negotiation: the promise rejected
   detail |-> "",                 \* negotiation: message of the error thrown;
                                  \* responseStart: the message held on entry
   clientSecret |-> JsUndefined,  \* negotiation: the value returned
   handle |-> FALSE,              \* effect: control of that render is present
   routine |-> FALSE,             \* effect: sendUserMessage of that render is present
   sendBegun |-> FALSE]           \* effect: sendUserMessage was called

Event(kind) == [NoEvent EXCEPT !.kind = kind]

NoCalls == [f \in FactIds |-> 0]

Init ==
  /\ WORKFLOW_ID \in WorkflowIds
  /\ autoStartText \in AutoStartTexts
  /\ processedFacts = {}
  /\ errors = createInitialErrors
  /\ isInitializingSession = TRUE
  /\ widgetInstanceKey = 0
  /\ isMountedRef = TRUE
  /\ hasAutoStartedRef = FALSE
  /\ pendingNegotiations = [b \in BOOLEAN |-> 0]
  /\ pendingSends = 0
  /\ pendingHandlers = {}
  /\ handlerCalls = NoCalls
  /\ clearedByThreadChange = {}
  /\ autoStartSends = 0
  /\ last = NoEvent
  /\ exPayload = EmptyPayload
  /\ exFallback = ""
  /\ exDetail = JsUndefined

\* ------------------------------------------------------------------------
\* Credential negotiation: getClientSecret (lines 444-552)
\* ------------------------------------------------------------------------
InFlight == pendingNegotiations[TRUE] + pendingNegotiations[FALSE]

\* An entry that sets the flag for every request, refreshes included
GetClientSecret_AlwaysInitializing(currentSecret) ==
  /\ IF ~isWorkflowConfigured(WORKFLOW_ID)
     THEN /\ IF isMountedRef
             THEN /\ errors' = JsStr(ConfigurationDetail)
                  /\ isInitializingSession' = FALSE
             ELSE UNCHANGED <<errors, isInitializingSession>>
          /\ UNCHANGED pendingNegotiations
          /\ last' = [Event("negotiation") EXCEPT
                        !.currentSecret = currentSecret,
                        !.threw = TRUE,
                        !.detail = ConfigurationDetail]
     ELSE /\ InFlight < MaxInFlight
          /\ IF isMountedRef
             THEN /\ isInitializingSession' = TRUE
                  /\ errors' = JsNull
             ELSE UNCHANGED <<errors, isInitializingSession>>
          /\ pendingNegotiations' =
               [pendingNegotiations EXCEPT ![~Truthy(currentSecret)] = @ + 1]
          /\ last' = [Event("fetch") EXCEPT
                        !.currentSecret = currentSecret,
                        !.fetchIssued = TRUE]
  /\ UNCHANGED <<configVars, factVars, autoVars, widgetInstanceKey,
                 isMountedRef, extractVars>>

\* Entry of getClientSecret up to the first await (lines 454-474).  With an
\* unconfigured workflow the call ends here; otherwise fetch is issued and
\* the call is suspended.
GetClientSecret(currentSecret) ==
  /\ IF ~isWorkflowConfigured(WORKFLOW_ID)
     THEN /\ IF isMountedRef
             THEN /\ errors' = JsStr(ConfigurationDetail)
                  /\ isInitializingSession' = FALSE
             ELSE UNCHANGED <<errors, isInitializingSession>>
          /\ UNCHANGED pendingNegotiations
          /\ last' = [Event("negotiation") EXCEPT
                        !.currentSecret = currentSecret,
                        !.threw = TRUE,
                        !.detail = ConfigurationDetail]
     ELSE /\ InFlight < MaxInFlight
          /\ IF isMountedRef
             THEN /\ isInitializingSession' =
                       IF ~Truthy(currentSecret) THEN TRUE
                       ELSE isInitializingSession
                  /\ errors' = JsNull
             ELSE UNCHANGED <<errors, isInitializingSession>>
          /\ pendingNegotiations' =
               [pendingNegotiations EXCEPT ![~Truthy(currentSecret)] = @ + 1]
          /\ last' = [Event("fetch") EXCEPT
                        !.currentSecret = currentSecret,
                        !.fetchIssued = TRUE]
  /\ UNCHANGED <<configVars, factVars, autoVars, widgetInstanceKey,
                 isMountedRef, extractVars>>

\* A continuation whose finally clears the flag only after a failure
NegotiationSettles_SuccessKeepsFlag(noSecret, outcome) ==
  /\ pendingNegotiations[noSecret] > 0
  /\ pendingNegotiations' = [pendingNegotiations EXCEPT ![noSecret] = @ - 1]
  /\ LET result == tryBlock(outcome)
         detail == catchDetail(result)
     IN /\ errors' =
             IF ~isMountedRef THEN errors
             ELSE IF result.threw THEN JsStr(detail)
             ELSE JsNull
        /\ isInitializingSession' =
             IF isMountedRef /\ noSecret /\ result.threw THEN FALSE
             ELSE isInitializingSession
        /\ last' = [Event("settled") EXCEPT
                      !.currentSecret = IF noSecret THEN JsNull ELSE JsStr("cs_old"),
                      !.outcome = outcome,
                      !.fetchIssued = TRUE,
                      !.threw = result.threw,
                      !.detail = IF result.threw THEN detail ELSE "",
                      !.clientSecret = result.clientSecret]
  /\ UNCHANGED <<configVars, factVars, autoVars, widgetInstanceKey,
                 isMountedRef, extractVars>>

\* Continuation of getClientSecret after the awaits: the rest of try, then
\* catch and finally (lines 490-549).
NegotiationSettles(noSecret, outcome) ==
  /\ pendingNegotiations[noSecret] > 0
  /\ pendingNegotiations' = [pendingNegotiations EXCEPT ![noSecret] = @ - 1]
  /\ LET result == tryBlock(outcome)
         detail == catchDetail(result)
     IN /\ errors' =
             IF ~isMountedRef THEN errors
             ELSE IF result.threw THEN JsStr(detail)
             ELSE JsNull
        /\ isInitializingSession' =
             IF isMountedRef /\ noSecret THEN FALSE ELSE isInitializingSession
        /\ last' = [Event("settled") EXCEPT
                      !.currentSecret = IF noSecret THEN JsNull ELSE JsStr("cs_old"),
                      !.outcome = outcome,
                      !.fetchIssued = TRUE,
                      !.threw = result.threw,
                      !.detail = IF result.threw THEN detail ELSE "",
                      !.clientSecret = result.clientSecret]
  /\ UNCHANGED <<configVars, factVars, autoVars, widgetInstanceKey,
                 isMountedRef, extractVars>>

\* ------------------------------------------------------------------------
\* Tool dispatcher: onClientTool (lines 573-609)
\* ------------------------------------------------------------------------
SwitchTheme(invocation) ==
  /\ invocation.name = "switch_theme"
  /\ LET requested == invocation.theme IN
     last' = IF isColorScheme(requested)
             THEN [Event("tool") EXCEPT !.invocation = invocation,
                                        !.themeRequested = requested,
                                        !.success = TRUE]
             ELSE [Event("tool") EXCEPT !.invocation = invocation,
                                        !.success = FALSE]
  /\ UNCHANGED factVars

RecordFact(invocation) ==
  /\ invocation.name = "record_fact"
  /\ LET id == factIdOf(invocation)
         text == IF invocation.fact_text.present
                 THEN invocation.fact_text.text ELSE <<>>
     IN IF shouldSkipFact(id, processedFacts)
        THEN /\ last' = [Event("tool") EXCEPT
                           !.invocation = invocation,
                           !.alreadyProcessed = id \in processedFacts,
                           !.success = TRUE]
             /\ UNCHANGED factVars
        ELSE /\ processedFacts' = processedFacts \cup {id}
             /\ handlerCalls' = [handlerCalls EXCEPT ![id] = @ + 1]
             /\ pendingHandlers' = pendingHandlers \cup {id}
             /\ UNCHANGED clearedByThreadChange
             /\ last' = [Event("tool") EXCEPT
                           !.invocation = invocation,
                           !.alreadyProcessed = id \in processedFacts,
                           !.handlerCalled = TRUE,
                           !.factId = id,
                           !.factText = normalizeFactText(text),
                           !.success = TRUE]

UnknownTool(invocation) ==
  /\ invocation.name \notin {"switch_theme", "record_fact"}
  /\ last' = [Event("tool") EXCEPT !.invocation = invocation,
                                   !.success = FALSE]
  /\ UNCHANGED factVars

\* The widget only calls back while it is on the page.
OnClientTool(invocation) ==
  /\ isMountedRef
  /\ \/ SwitchTheme(invocation)
     \/ RecordFact(invocation)
     \/ UnknownTool(invocation)
  /\ UNCHANGED <<configVars, errors, isInitializingSession, widgetInstanceKey,
                 isMountedRef, autoVars, pendingNegotiations,
                 extractVars>>

\* A promise returned by onWidgetAction settles; its value is discarded
\* (void), so nothing of the controller changes.  Another promise for the
\* same id, begun after a clearing event, may still be unsettled.
HandlerSettles(id) ==
  /\ id \in pendingHandlers
  /\ pendingHandlers' \in {pendingHandlers, pendingHandlers \ {id}}
  /\ last' = NoEvent
  /\ UNCHANGED <<configVars, processedFacts, handlerCalls, clearedByThreadChange,
                 errors, isInitializingSession, widgetInstanceKey, isMountedRef,
                 autoVars, pendingNegotiations, extractVars>>

\* onClientTool when the collaborator it calls throws.  The props accept any
\* function (lines 382-384) and no try surrounds the calls at lines 583 and
\* 599, so the exception leaves the async function: the promise handed to
\* the widget rejects and no result is returned.  The id of a fact is in
\* processedFacts by then (line 597).
OnClientToolCallbackThrows(invocation) ==
  /\ isMountedRef
  /\ \/ /\ invocation.name = "switch_theme"
        /\ isColorScheme(invocation.theme)
        /\ last' = [Event("tool") EXCEPT !.invocation = invocation,
                                         !.themeRequested = invocation.theme,
                                         !.threw = TRUE]
        /\ UNCHANGED factVars
     \/ /\ invocation.name = "record_fact"
        /\ LET id == factIdOf(invocation)
               text == IF invocation.fact_text.present
                       THEN invocation.fact_text.text ELSE <<>>
           IN /\ ~shouldSkipFact(id, processedFacts)
              /\ processedFacts' = processedFacts \cup {id}
              /\ handlerCalls' = [handlerCalls EXCEPT ![id] = @ + 1]
              /\ UNCHANGED <<pendingHandlers, clearedByThreadChange>>
              /\ last' = [Event("tool") EXCEPT
                            !.invocation = invocation,
                            !.handlerCalled = TRUE,
                            !.factId = id,
                            !.factText = normalizeFactText(text),
                            !.threw = TRUE]
  /\ UNCHANGED <<configVars, errors, isInitializingSession, widgetInstanceKey,
                 isMountedRef, autoVars, pendingNegotiations,
                 extractVars>>

\* ------------------------------------------------------------------------
\* Widget lifecycle events (lines 610-623)
\* ------------------------------------------------------------------------
\* A response end that also remounts the widget
OnResponseEnd_Remounts ==
  /\ isMountedRef
  /\ widgetInstanceKey < MaxGeneration
  /\ widgetInstanceKey' = widgetInstanceKey + 1
  /\ last' = NoEvent
  /\ UNCHANGED <<configVars, factVars, errors, isInitializingSession,
                 isMountedRef, autoVars, pendingNegotiations, extractVars>>

OnResponseEnd ==
  /\ isMountedRef
  /\ last' = NoEvent
  /\ UNCHANGED <<configVars, factVars, errors, isInitializingSession,
                 widgetInstanceKey, isMountedRef, autoVars,
                 pendingNegotiations, extractVars>>

\* A response start that clears only messages of negotiations
OnResponseStart_KeepsAutoStartMessage ==
  /\ isMountedRef
  /\ errors' = IF errors = JsStr(AutoStartFailureMessage) THEN errors ELSE JsNull
  /\ last' = [Event("responseStart") EXCEPT !.detail = errors.s]
  /\ UNCHANGED <<configVars, factVars, isInitializingSession,
                 widgetInstanceKey, isMountedRef, autoVars,
                 pendingNegotiations, extractVars>>

OnResponseStart ==
  /\ isMountedRef
  /\ errors' = JsNull
  /\ last' = [Event("responseStart") EXCEPT !.detail = errors.s]
  /\ UNCHANGED <<configVars, factVars, isInitializingSession,
                 widgetInstanceKey, isMountedRef, autoVars,
                 pendingNegotiations, extractVars>>

OnThreadChange_OnlyGuard ==
  /\ isMountedRef
  /\ hasAutoStartedRef' = FALSE
  /\ last' = Event("threadChange")
  /\ UNCHANGED <<configVars, factVars, errors, isInitializingSession,
                 widgetInstanceKey, isMountedRef, pendingSends, autoStartSends,
                 pendingNegotiations, extractVars>>

OnThreadChange ==
  /\ isMountedRef
  /\ processedFacts' = {}
  /\ hasAutoStartedRef' = FALSE
  /\ handlerCalls' = NoCalls
  /\ clearedByThreadChange' = clearedByThreadChange \cup processedFacts
  /\ last' = Event("threadChange")
  /\ UNCHANGED <<configVars, pendingHandlers, errors, isInitializingSession,
                 widgetInstanceKey, isMountedRef, pendingSends, autoStartSends,
                 pendingNegotiations, extractVars>>

\* ------------------------------------------------------------------------
\* Reset (lines 433-439), offered as onRetry only while hasError (line 670)
\* ------------------------------------------------------------------------
\* A reset that leaves the auto-start guard as it is
HandleResetChat_KeepsGuard ==
  /\ isMountedRef
  /\ hasErrorOf(errors)
  /\ widgetInstanceKey < MaxGeneration
  /\ processedFacts' = {}
  /\ isInitializingSession' = TRUE
  /\ errors' = createInitialErrors
  /\ widgetInstanceKey' = widgetInstanceKey + 1
  /\ handlerCalls' = NoCalls
  /\ autoStartSends' = 0
  /\ last' = Event("reset")
  /\ UNCHANGED <<configVars, pendingHandlers, clearedByThreadChange, pendingSends,
                 hasAutoStartedRef, isMountedRef, pendingNegotiations,
                 extractVars>>

HandleResetChat ==
  /\ isMountedRef
  /\ hasErrorOf(errors)
  /\ widgetInstanceKey < MaxGeneration
  /\ processedFacts' = {}
  /\ hasAutoStartedRef' = FALSE
  /\ isInitializingSession' = TRUE
  /\ errors' = createInitialErrors
  /\ widgetInstanceKey' = widgetInstanceKey + 1
  /\ handlerCalls' = NoCalls
  /\ autoStartSends' = 0
  /\ last' = Event("reset")
  /\ UNCHANGED <<configVars, pendingHandlers, clearedByThreadChange, pendingSends,
                 isMountedRef, pendingNegotiations, extractVars>>

\* ------------------------------------------------------------------------
\* Auto-start effect (lines 627-650).  React runs it after the first render
\* and after every render in which control, sendUserMessage or autoStartText
\* differ from the previous render; handle and routine tell whether the
\* control and sendUserMessage that useChatKit returned in that render are
\* present.
\* ------------------------------------------------------------------------
AutoStartEffect(handle, routine) ==
  /\ isMountedRef
  /\ IF ~handle \/ ~routine \/ ~Truthy(autoStartText) \/ hasAutoStartedRef
     THEN /\ UNCHANGED autoVars
          /\ last' = [Event("effect") EXCEPT !.handle = handle,
                                              !.routine = routine]
     ELSE /\ pendingSends < MaxPendingSends
          /\ autoStartSends < MaxSendsPerGeneration
          /\ hasAutoStartedRef' = TRUE
          /\ pendingSends' = pendingSends + 1
          /\ autoStartSends' = autoStartSends + 1
          /\ last' = [Event("effect") EXCEPT !.handle = handle,
                                              !.routine = routine,
                                              !.sendBegun = TRUE]
  /\ UNCHANGED <<configVars, factVars, errors, isInitializingSession,
                 widgetInstanceKey, isMountedRef, pendingNegotiations,
                 extractVars>>

\* A continuation whose catch re-arms the guard so that the send is retried
AutoStartSendSettles_Rearms(rejected) ==
  /\ pendingSends > 0
  /\ pendingSends' = pendingSends - 1
  /\ errors' = IF rejected THEN JsStr(AutoStartFailureMessage) ELSE errors
  /\ hasAutoStartedRef' = IF rejected THEN FALSE ELSE hasAutoStartedRef
  /\ last' = [Event("sendSettled") EXCEPT !.threw = rejected]
  /\ UNCHANGED <<configVars, factVars, autoStartSends,
                 isInitializingSession, widgetInstanceKey, isMountedRef,
                 pendingNegotiations, extractVars>>

\* Continuation of the async send (lines 639-648)
AutoStartSendSettles(rejected) ==
  /\ pendingSends > 0
  /\ pendingSends' = pendingSends - 1
  /\ errors' = IF rejected THEN JsStr(AutoStartFailureMessage) ELSE errors
  /\ last' = [Event("sendSettled") EXCEPT !.threw = rejected]
  /\ UNCHANGED <<configVars, factVars, hasAutoStartedRef, autoStartSends,
                 isInitializingSession, widgetInstanceKey, isMountedRef,
                 pendingNegotiations, extractVars>>

\* Cleanup of the mount effect (lines 423-427)
Unmount ==
  /\ isMountedRef
  /\ isMountedRef' = FALSE
  /\ last' = NoEvent
  /\ UNCHANGED <<configVars, factVars, errors, isInitializingSession,
                 widgetInstanceKey, autoVars, pendingNegotiations,
                 extractVars>>

\* Events that take no input from outside the controller
Lifecycle ==
  \/ \E id \in FactIds : HandlerSettles(id)
  \/ OnResponseEnd
  \/ OnResponseStart
  \/ OnThreadChange
  \/ HandleResetChat
  \/ \E rejected \in BOOLEAN : AutoStartSendSettles(rejected)
  \/ Unmount

\* ------------------------------------------------------------------------
\* The controller with a few representative inputs of every kind
\* ------------------------------------------------------------------------
FewInvocations ==
  { Invocation("switch_theme", JsStr("dark"), JsUndefined, NoFactText),
    Invocation("record_fact", JsUndefined, JsStr("f1"), NoFactText),
    Invocation("open_window", JsUndefined, JsStr("f1"), NoFactText) }

FewOutcomes ==
  { HttpResponse(TRUE, "OK", JsonBody(PayloadObject(JsStr("cs_new"), NoError, NoDetails, JsUndefined))),
    HttpResponse(FALSE, "Internal Server Error", ErrorBody(WithMessage(JsStr("rate_limited"), JsUndefined))) }

FewWorkflowIds == {PlaceholderPrefix, <<"w", "f", "_", "1">>}

Next ==
  \/ \E currentSecret \in CurrentSecrets : GetClientSecret(currentSecret)
  \/ \E noSecret \in BOOLEAN, outcome \in FewOutcomes :
       NegotiationSettles(noSecret, outcome)
  \/ \E invocation \in FewInvocations : OnClientTool(invocation)
  \/ \E handle \in BOOLEAN, routine \in BOOLEAN : AutoStartEffect(handle, routine)
  \/ Lifecycle

InitFew == Init /\ WORKFLOW_ID \in FewWorkflowIds

Spec == InitFew /\ [][Next]_vars

\* ------------------------------------------------------------------------
\* The tool dispatcher with every kind of invocation, and the events that
\* clear its dedup state.  The backend fails every negotiation, which is
\* what offers the reset.
\* ------------------------------------------------------------------------
NextTools ==
  \/ \E currentSecret \in {JsNull} : GetClientSecret(currentSecret)
  \/ \E noSecret \in BOOLEAN, outcome \in {Rejection(TRUE, "Failed to fetch")} :
       NegotiationSettles(noSecret, outcome)
  \/ \E invocation \in Invocations : OnClientTool(invocation)
  \/ \E id \in FactIds : HandlerSettles(id)
  \/ OnResponseEnd
  \/ OnResponseStart
  \/ OnThreadChange
  \/ HandleResetChat
  \/ Unmount

InitTools ==
  /\ Init
  /\ WORKFLOW_ID = <<"w", "f", "_", "1">>
  /\ autoStartText = JsUndefined

SpecTools == InitTools /\ [][NextTools]_vars

\* ------------------------------------------------------------------------
\* The credential negotiation with every kind of workflow identifier and
\* backend outcome
\* ------------------------------------------------------------------------
NextNegotiation ==
  \/ \E currentSecret \in CurrentSecrets : GetClientSecret(currentSecret)
  \/ \E noSecret \in BOOLEAN, outcome \in Outcomes :
       NegotiationSettles(noSecret, outcome)
  \/ \E handle \in {TRUE}, routine \in {TRUE} : AutoStartEffect(handle, routine)
  \/ \E rejected \in BOOLEAN : AutoStartSendSettles(rejected)
  \/ OnResponseEnd
  \/ OnResponseStart
  \/ OnThreadChange
  \/ HandleResetChat
  \/ Unmount

InitNegotiation == Init /\ autoStartText = JsStr("Start")

SpecNegotiation == InitNegotiation /\ [][NextNegotiation]_vars

\* ------------------------------------------------------------------------
\* The tool dispatcher with collaborators that may throw
\* ------------------------------------------------------------------------
NextFaultyTools ==
  \/ NextTools
  \/ \E invocation \in FewInvocations : OnClientToolCallbackThrows(invocation)

SpecFaultyTools == InitTools /\ [][NextFaultyTools]_vars

\* ------------------------------------------------------------------------
\* The credential negotiation on its own, with a backend that answers every
\* call it receives: each await of getClientSecret (lines 474-490)
\* eventually resolves or rejects.
\* ------------------------------------------------------------------------
NextAnswered ==
  \/ \E currentSecret \in CurrentSecrets : GetClientSecret(currentSecret)
  \/ \E noSecret \in BOOLEAN, outcome \in Outcomes :
       NegotiationSettles(noSecret, outcome)
  \/ OnResponseStart
  \/ HandleResetChat
  \/ Unmount

InitAnswered == Init /\ autoStartText = JsUndefined

BackendAnswers ==
  \A noSecret \in BOOLEAN :
    WF_vars(\E outcome \in Outcomes : NegotiationSettles(noSecret, outcome))

SpecAnswered == InitAnswered /\ [][NextAnswered]_vars /\ BackendAnswers

\* line 670: onRetry={hasError ? handleResetChat : null}
RetryOffered == hasErrorOf(errors)

\* ------------------------------------------------------------------------
\* extractErrorDetail on its own, over every payload built from the fields
\* error, details and message
\* ------------------------------------------------------------------------
Leaves == {JsUndefined, JsNull, JsNum(1), JsStr(""), JsStr("X"), JsStr("Y")}
ErrorValues ==
  {WithMessage(v, JsUndefined) : v \in Leaves} \cup {JsErrorObject(m) : m \in Leaves}
DetailsValues ==
  {WithError(v, NoError) : v \in Leaves} \cup {JsDetailsObject(e) : e \in ErrorValues}
ExtractPayloads ==
  {PayloadObject(JsUndefined, e, d, m) :
     e \in ErrorValues, d \in DetailsValues, m \in Leaves}
  \cup {PayloadPrimitive(v) : v \in {JsNull, JsNum(0), JsNum(1), JsStr(""), JsStr("X")}}
Fallbacks == {"", "Bad Gateway"}

ApplyExtractErrorDetail ==
  /\ exDetail = JsUndefined
  /\ exDetail' = JsStr(extractErrorDetail(exPayload, exFallback))
  /\ UNCHANGED <<configVars, factVars, autoVars, errors, isInitializingSession,
                 widgetInstanceKey, isMountedRef, pendingNegotiations, last,
                 exPayload, exFallback>>

InitExtract ==
  /\ WORKFLOW_ID = <<"w", "f", "_", "1">>
  /\ autoStartText = JsUndefined
  /\ processedFacts = {}
  /\ errors = createInitialErrors
  /\ isInitializingSession = TRUE
  /\ widgetInstanceKey = 0
  /\ isMountedRef = TRUE
  /\ hasAutoStartedRef = FALSE
  /\ pendingNegotiations = [b \in BOOLEAN |-> 0]
  /\ pendingSends = 0
  /\ pendingHandlers = {}
  /\ handlerCalls = NoCalls
  /\ clearedByThreadChange = {}
  /\ autoStartSends = 0
  /\ last = NoEvent
  /\ exPayload \in ExtractPayloads
  /\ exFallback \in Fallbacks
  /\ exDetail = JsUndefined

SpecExtract == InitExtract /\ [][ApplyExtractErrorDetail]_vars

\* ========================================================================
\* Properties
\* ========================================================================

\* The fallback order of the failure detail, stated as a list of candidates
\* of which the first applicable one wins.
DetailCandidates(payload) ==
  << [applies |-> payload.error.t = "string", text |-> payload.error.s],
     [applies |-> payload.error.t = "object" /\ payload.error.message.t = "string",
      text |-> payload.error.message.s],
     [applies |-> payload.details.t = "string", text |-> payload.details.s],
     [applies |-> payload.details.t = "object" /\ payload.details.error.t = "string",
      text |-> payload.details.error.s],
     [applies |-> /\ payload.details.t = "object"
                  /\ payload.details.error.t = "object"
                  /\ payload.details.error.message.t = "string",
      text |-> payload.details.error.message.s],
     [applies |-> payload.message.t = "string", text |-> payload.message.s] >>

FirstMatch(payload, fallback) ==
  LET candidates == DetailCandidates(payload)
      applicable == {i \in DOMAIN candidates : candidates[i].applies}
  IN IF applicable = {} THEN fallback
     ELSE candidates[CHOOSE i \in applicable : \A j \in applicable : i <= j].text

\* C1: between two clearing events (thread change or reset) onWidgetAction is
\* called at most once per non-empty fact id, the id is in processedFacts
\* whenever its handler has been called, and an invocation that repeats an id
\* whose handler promise is still unsettled does not call the handler again.
C1_HandlerAtMostOncePerFact ==
  /\ \A id \in FactIds :
       /\ handlerCalls[id] <= 1
       /\ handlerCalls[id] = 1 => id \in processedFacts
  /\ ( /\ last.kind = "tool"
       /\ last.invocation.name = "record_fact"
       /\ last.alreadyProcessed )
     => /\ ~last.handlerCalled
        /\ last.success

C1_Witness ==
  /\ last.kind = "tool"
  /\ last.invocation.name = "record_fact"
  /\ last.invocation.fact_id = JsStr("f1")
  /\ last.alreadyProcessed
  /\ "f1" \in pendingHandlers
  /\ handlerCalls["f1"] = 1

\* C2: switch_theme with a theme that is not exactly "light" or "dark"
\* (absent included) returns {success: false} and does not call
\* onThemeRequest; with "light" or "dark" it calls onThemeRequest with that
\* value and returns {success: true}.
C2_SwitchThemeValidated ==
  (last.kind = "tool" /\ last.invocation.name = "switch_theme")
  => IF last.invocation.theme.t = "string"
        /\ last.invocation.theme.s \in {"light", "dark"}
     THEN last.success /\ last.themeRequested = last.invocation.theme
     ELSE ~last.success /\ last.themeRequested = JsUndefined

C2_Witness ==
  /\ last.kind = "tool"
  /\ last.invocation.name = "switch_theme"
  /\ last.invocation.theme = JsStr("Light")
  /\ ~last.success

\* The workflow identifier is empty or begins with wf_replace.
WorkflowUnset ==
  \/ WORKFLOW_ID = <<>>
  \/ /\ Len(WORKFLOW_ID) >= Len(PlaceholderPrefix)
     /\ \A i \in 1..Len(PlaceholderPrefix) : WORKFLOW_ID[i] = PlaceholderPrefix[i]

\* C3: with the workflow identifier unset, no backend request is ever issued
\* or pending, every negotiation (first call or refresh) fails with the
\* configuration detail, and while mounted the controller then holds that
\* detail as its message and is not initializing.
C3_UnsetWorkflowFailsFast ==
  WorkflowUnset
  => /\ pendingNegotiations = [b \in BOOLEAN |-> 0]
     /\ last.kind \notin {"fetch", "settled"}
     /\ ~last.fetchIssued
     /\ last.kind = "negotiation"
        => /\ last.threw
           /\ last.detail = ConfigurationDetail
           /\ last.clientSecret = JsUndefined
           /\ isMountedRef => /\ errors = JsStr(ConfigurationDetail)
                              /\ ~isInitializingSession

C3_Witness ==
  /\ WORKFLOW_ID = PlaceholderPrefix \o <<"_", "m", "e">>
  /\ last.kind = "negotiation"
  /\ last.currentSecret = JsStr("cs_old")
  /\ isMountedRef
  /\ errors = JsStr(ConfigurationDetail)

\* C4: for a payload object built from error, details and message, and any
\* fallback status text, extractErrorDetail returns the first applicable
\* candidate of the fallback order, else the fallback; in particular
\* {details: {error: {message: "X"}}} yields "X".
C4_ExtractionOrder ==
  (exDetail # JsUndefined /\ exPayload.t = "object")
  => /\ exDetail = JsStr(FirstMatch(exPayload, exFallback))
     /\ exPayload = PayloadObject(JsUndefined, NoError,
                                  JsDetailsObject(JsErrorObject(JsStr("X"))),
                                  JsUndefined)
        => exDetail = JsStr("X")

C4_Witness ==
  /\ exDetail = JsStr("X")
  /\ exPayload = PayloadObject(JsUndefined, NoError,
                               JsDetailsObject(JsErrorObject(JsStr("X"))),
                               JsUndefined)

\* The response carries no non-empty client_secret.
NoClientSecret(body) ==
  \/ body.raw # "json"
  \/ body.json.client_secret.t # "string"
  \/ body.json.client_secret.s = ""

\* C5: a response with a success status and no non-empty client_secret
\* (empty, unparseable or {} body included) makes the negotiation fail, no
\* credential is returned, and while mounted the message is exactly
\* "Missing client secret in response".
C5_MissingSecretIsFailure ==
  ( /\ last.kind = "settled"
    /\ last.outcome.kind = "response"
    /\ last.outcome.ok
    /\ NoClientSecret(last.outcome.body) )
  => /\ last.threw
     /\ last.clientSecret = JsUndefined
     /\ isMountedRef => errors = JsStr(MissingSecretDetail)

\* C6: once a negotiation that received a non-success status completes
\* while mounted, the message is exactly the detail extracted from the
\* response (payload fields in fallback order, else the status text) and the
\* retry action is offered.
C6_NonSuccessSurfacesDetailWithRetry ==
  ( /\ last.kind = "settled"
    /\ last.outcome.kind = "response"
    /\ ~last.outcome.ok
    /\ isMountedRef )
  => /\ errors = JsStr(FirstMatch(IF last.outcome.body.raw = "json"
                                  THEN last.outcome.body.json ELSE EmptyPayload,
                                  last.outcome.statusText))
     /\ RetryOffered

\* C7: a thread change empties processedFacts, and the first record_fact
\* after it that carries an id processed before the thread change calls
\* onWidgetAction again, once, with that id.
C7_ThreadChangeClearsDedup ==
  /\ last.kind = "threadChange" => processedFacts = {}
  /\ \A id \in clearedByThreadChange :
       ( /\ last.kind = "tool"
         /\ last.invocation.name = "record_fact"
         /\ last.invocation.fact_id = JsStr(id)
         /\ ~last.alreadyProcessed )
       => /\ last.handlerCalled
          /\ last.factId = id
          /\ handlerCalls[id] = 1
          /\ last.success

C7_Witness ==
  /\ last.kind = "tool"
  /\ last.invocation.name = "record_fact"
  /\ last.invocation.fact_id = JsStr("f1")
  /\ "f1" \in clearedByThreadChange
  /\ last.handlerCalled
  /\ handlerCalls["f1"] = 1

\* C8: after a manual reset, with an auto-start text configured, once the
\* auto-start effect has run with the widget handle and send routine present,
\* exactly one auto-start send has been made in the new generation.
C8_ResetGivesExactlyOneAutoStart ==
  ( /\ widgetInstanceKey > 0
    /\ Truthy(autoStartText)
    /\ last.kind = "effect"
    /\ last.handle
    /\ last.routine )
  => autoStartSends = 1

\* C9: in every generation at most one automatic start message is sent.
C9_AtMostOneAutoStartPerGeneration == autoStartSends <= 1

\* C10: after teardown no step changes the error message or the
\* initializing flag.
C10_NoUpdateAfterTeardown ==
  [][~isMountedRef =>
       /\ errors' = errors
       /\ isInitializingSession' = isInitializingSession]_vars

\* ------------------------------------------------------------------------
\* C11: the retry action is offered only for a message that comes from a
\* negotiation or configuration failure: while the message displayed is the
\* auto-start failure message, no retry action is offered.
\* ------------------------------------------------------------------------
C11_NoRetryForAutoStartFailure ==
  errors = JsStr(AutoStartFailureMessage) => ~RetryOffered

\* ------------------------------------------------------------------------
\* C12: in every reachable state the retry action is offered if and only
\* if the error surface holds a message (the message is not absent), the
\* empty string included.
\* ------------------------------------------------------------------------
C12_RetryIffMessagePresent ==
  RetryOffered <=> errors # JsNull

\* ------------------------------------------------------------------------
\* C13: every tool invocation receives a structured result {success} and
\* never a fault: an unknown tool name is answered {success: false} with no
\* callback invoked, and a recognized tool whose collaborator callback
\* fails is still answered with a result.
\* ------------------------------------------------------------------------
C13_ToolAlwaysGetsStructuredResult ==
  last.kind = "tool" =>
    /\ ~last.threw
    /\ last.invocation.name \notin {"switch_theme", "record_fact"} =>
         /\ ~last.success
         /\ ~last.handlerCalled
         /\ last.themeRequested = JsUndefined

\* ------------------------------------------------------------------------
\* C14: when a request with no previous credential succeeds while mounted,
\* the error message is cleared and the completion of the negotiation
\* itself clears the Initializing flag (finally, lines 545-549).
\* ------------------------------------------------------------------------
FirstRequestSucceeded ==
  /\ last.kind = "settled"
  /\ ~last.threw
  /\ ~Truthy(last.currentSecret)
  /\ isMountedRef

\* C14: such a success leaves no message, a cleared Initializing flag and a
\* credential returned.
C14_SuccessClearsInitializing ==
  FirstRequestSucceeded =>
    /\ errors = JsNull
    /\ ~isInitializingSession
    /\ Truthy(last.clientSecret)

C14_Witness ==
  /\ FirstRequestSucceeded
  /\ errors = JsNull
  /\ ~isInitializingSession
  /\ last.clientSecret = JsStr("cs_new")

\* C14 as first stated: after the success the controller remains
\* Initializing; the completion does not clear the flag.
C14_SuccessRemainsInitializing ==
  FirstRequestSucceeded =>
    /\ errors = JsNull
    /\ isInitializingSession

\* ------------------------------------------------------------------------
\* C15: after any failed negotiation completes while mounted, a first
\* request or a refresh, the error surface holds the failure's message and
\* the controller is not Initializing.
\* ------------------------------------------------------------------------
C15_FailureLeavesErrorNotInitializing ==
  (last.kind \in {"negotiation", "settled"} /\ last.threw /\ isMountedRef) =>
    /\ errors = JsStr(last.detail)
    /\ ~isInitializingSession

\* ------------------------------------------------------------------------
\* C16: with a configured workflow, the entry of a refresh (previous
\* credential present) leaves the Initializing flag as it was before the
\* request, and the entry of a request with no previous credential sets it
\* (while mounted: no state is written after teardown).
\* ------------------------------------------------------------------------
C16_RefreshKeepsInitializingFlag ==
  [][last'.kind = "fetch" =>
       /\ Truthy(last'.currentSecret) =>
            isInitializingSession' = isInitializingSession
       /\ (~Truthy(last'.currentSecret) /\ isMountedRef) =>
            isInitializingSession']_vars

C16_Witness ==
  /\ last.kind = "fetch"
  /\ last.currentSecret = JsStr("cs_old")
  /\ isMountedRef
  /\ ~isInitializingSession

\* ------------------------------------------------------------------------
\* C17: a manual reset, which is possible only where the retry action is
\* offered, leaves the generation at the previous generation plus one, the
\* Initializing flag set, no error message, an empty ProcessedFactIds and a
\* cleared auto-start guard.  Stated of every step that changes the
\* generation.
\* ------------------------------------------------------------------------
C17_ResetPostcondition ==
  [][widgetInstanceKey' # widgetInstanceKey =>
       /\ RetryOffered
       /\ widgetInstanceKey' = widgetInstanceKey + 1
       /\ isInitializingSession'
       /\ errors' = JsNull
       /\ processedFacts' = {}
       /\ ~hasAutoStartedRef']_vars

\* a reset has happened with a fact recorded and a send begun before it
C17_Witness ==
  /\ widgetInstanceKey = 1
  /\ last.kind = "reset"
  /\ isInitializingSession
  /\ errors = JsNull
  /\ processedFacts = {}
  /\ ~hasAutoStartedRef
  /\ "f1" \in pendingHandlers
  /\ clearedByThreadChange = {}
  /\ pendingSends = 1
  /\ autoStartSends = 0

\* ------------------------------------------------------------------------
\* C18: the generation starts at 0, never decreases and changes only in a
\* manual reset, by exactly one: negotiations, tool invocations, auto-start
\* sends, thread changes and response start/end leave it unchanged.
\* ------------------------------------------------------------------------
C18_GenerationChangesOnlyOnReset ==
  /\ widgetInstanceKey = 0
  /\ [][/\ widgetInstanceKey' >= widgetInstanceKey
        /\ widgetInstanceKey' # widgetInstanceKey =>
             /\ widgetInstanceKey' = widgetInstanceKey + 1
             /\ HandleResetChat
        /\ last'.kind \in {"negotiation", "fetch", "settled", "tool", "effect",
                           "sendSettled", "threadChange"} =>
             widgetInstanceKey' = widgetInstanceKey]_vars

C18_Witness ==
  /\ widgetInstanceKey = 1
  /\ last.kind = "threadChange"

\* ------------------------------------------------------------------------
\* C19: when the auto-start send fails, the failure leaves the auto-start
\* guard as it is, begins no further send, and the error surface holds
\* exactly the auto-start failure message.
\* ------------------------------------------------------------------------
C19_AutoStartFailureNotRetried ==
  [][(last'.kind = "sendSettled" /\ last'.threw) =>
       /\ hasAutoStartedRef' = hasAutoStartedRef
       /\ autoStartSends' = autoStartSends
       /\ pendingSends' = pendingSends - 1
       /\ errors' = JsStr(AutoStartFailureMessage)]_vars

C19_Witness ==
  /\ last.kind = "sendSettled"
  /\ last.threw
  /\ hasAutoStartedRef
  /\ pendingSends = 0
  /\ autoStartSends = 1
  /\ errors = JsStr(AutoStartFailureMessage)

\* ------------------------------------------------------------------------
\* C20: a response-start event clears the error message whatever its
\* origin, so that no message and no retry action are shown afterwards, and
\* leaves the Initializing flag, the generation, ProcessedFactIds and the
\* auto-start guard unchanged.
\* ------------------------------------------------------------------------
C20_ResponseStartClearsMessage ==
  [][last'.kind = "responseStart" =>
       /\ errors' = JsNull
       /\ ~RetryOffered'
       /\ UNCHANGED <<isInitializingSession, widgetInstanceKey,
                      processedFacts, hasAutoStartedRef>>]_vars

\* the message cleared was the auto-start failure message
C20_Witness ==
  /\ last.kind = "responseStart"
  /\ last.detail = AutoStartFailureMessage
  /\ errors = JsNull
  /\ ~RetryOffered

\* ------------------------------------------------------------------------
\* C21: a record_fact invocation whose fact_id is absent or empty returns
\* {success: true}, does not call the persistence handler and leaves
\* ProcessedFactIds unchanged, every time it is made.
\* ------------------------------------------------------------------------
AbsentOrEmptyFactId(event) ==
  /\ event.kind = "tool"
  /\ event.invocation.name = "record_fact"
  /\ event.invocation.fact_id \in {JsUndefined, JsNull, JsStr("")}

\* C21: every record_fact step without a usable fact_id succeeds with no
\* handler call and no change to the dedup state.
C21_EmptyFactIdIsNoOp ==
  [][AbsentOrEmptyFactId(last') =>
       /\ last'.success
       /\ ~last'.threw
       /\ ~last'.handlerCalled
       /\ processedFacts' = processedFacts
       /\ handlerCalls' = handlerCalls
       /\ pendingHandlers' = pendingHandlers]_vars

\* an absent fact_id arrives after f1 was recorded
C21_Witness ==
  /\ AbsentOrEmptyFactId(last)
  /\ last.invocation.fact_id = JsUndefined
  /\ last.success
  /\ ~last.handlerCalled
  /\ processedFacts = {"f1"}
  /\ handlerCalls["f1"] = 1

\* ------------------------------------------------------------------------
\* C22: the completion of a negotiation that is no longer the current one
\* does not overwrite the error message or the Initializing flag.  A
\* negotiation that settles in the step right after a manual reset was
\* started before that reset, so it must leave what the reset established.
\* ------------------------------------------------------------------------
C22_StaleCompletionKeepsResetState ==
  [][(last.kind = "reset" /\ last'.kind = "settled") =>
       /\ errors' = errors
       /\ isInitializingSession' = isInitializingSession]_vars

\* ------------------------------------------------------------------------
\* C23: while the component stays mounted and no reset intervenes, every
\* credential request made with no previous credential is eventually
\* followed by a state in which the Initializing flag is cleared, given
\* that the backend call eventually returns or fails.
\* ------------------------------------------------------------------------
NoCredentialRequested ==
  /\ last.kind \in {"fetch", "negotiation"}
  /\ ~Truthy(last.currentSecret)
  /\ isMountedRef

\* C23: a request with no previous credential leads to a cleared
\* Initializing flag, unless the component unmounts or a reset intervenes.
C23_InitializingEventuallyCleared ==
  NoCredentialRequested ~>
    (~isInitializingSession \/ ~isMountedRef \/ last.kind = "reset")

\* a transport exception of a first request reached the finally block
C23_Witness ==
  /\ last.kind = "settled"
  /\ ~Truthy(last.currentSecret)
  /\ last.outcome = Rejection(TRUE, "Failed to fetch")
  /\ isMountedRef
  /\ ~isInitializingSession

====
